---- MODULE Spec2Model ----
(***************************************************************************)
(* A model of src/google_pdf_chatbot.py: the GooglePDFChatbot class (PDF   *)
(* loading, the rate limiter, the relevance selector, the quota handler,   *)
(* ask_question) and the CLI loop of main().                               *)
(*                                                                         *)
(* Time.  time.time() returns a float; the model counts time in ticks of   *)
(* 1/TicksPerSecond second, so that non-integer numbers of seconds exist   *)
(* and int() truncation is visible.  time.sleep(x) sleeps for x or longer; *)
(* the extra time (scheduling, the join of the countdown thread) is drawn  *)
(* from 0..MaxOvershoot.                                                   *)
(*                                                                         *)
(* Strings are sequences of one-character strings.  The Turkish letters of *)
(* the program's messages are written without their diacritics, the module *)
(* being ASCII.                                                            *)
(*                                                                         *)
(* Threads.  In Spec a wait is one step of the main flow; the countdown    *)
(* thread of the wait shares stop_countdown with it without any lock, so   *)
(* the value the wait leaves in the flag is either Boolean.  SpecCountdown *)
(* takes one wait apart into the steps of the two threads.                 *)
(*                                                                         *)
(* Specifications.  Spec: main() from initialize on.  SpecCall:            *)
(* ask_question on an object whatever its startup left.  SpecRolling: a    *)
(* session whose sends succeed, one request marked.  SpecCountdown and     *)
(* SpecCountdownFair: one wait and its countdown thread.  SpecSelector:    *)
(* find_relevant_chunk over a vocabulary of documents and questions.       *)
(***************************************************************************)
EXTENDS Integers, Sequences, FiniteSets, TLC

VARIABLES
    now,                      \* the clock read by time.time(), in ticks
    text_chunks,              \* self.text_chunks
    model,                    \* self.model: None or the model handle
    last_request_time,        \* self.last_request_time
    requests_in_last_minute,  \* self.requests_in_last_minute
    last_minute_start,        \* self.last_minute_start
    next_available_time,      \* self.next_available_time
    pc,                       \* position of the main flow
    question,                 \* main(): the line read by input()
    retry_count,              \* ask_question: retry_count
    relevant_chunk,           \* ask_question: relevant_chunk (None outside an attempt)
    answer,                   \* the value ask_question returned (None during a call)
    stdout,                   \* the last text main() wrote to standard output
    sends,                    \* history: chat.send_message calls for the current question
    reply,                    \* history: response.text obtained for the current question
    recorded,                 \* history: requests recorded by wait_for_rate_limit so far
    first_window_start,       \* history: last_minute_start when the first request was recorded (0 before)
    window_waits,             \* history: times the per-minute wait blocked a request
    error_message,            \* ask_question: error_message (None before an error)
    startup_error,            \* history: the startup step that returned False, or ""
    setup_called,             \* history: setup_model was called
    stop_countdown,           \* self.stop_countdown
    total_sends,              \* history: chat.send_message calls so far
    window_sends,             \* history: chat.send_message calls since the window was last reset
    mark_time,                \* history: the time at which the marked request was recorded
    since_mark,               \* history: requests recorded from the marked one on (0: none marked)
    worker,                   \* position of the countdown thread in show_countdown
    countdown_i,              \* show_countdown: the loop variable i
    total_seconds             \* show_countdown: total_seconds

vars == <<now, text_chunks, model, last_request_time, requests_in_last_minute,
          last_minute_start, next_available_time, pc, question, retry_count,
          relevant_chunk, answer, stdout, sends, reply, recorded,
          first_window_start, window_waits, error_message, startup_error,
          setup_called, stop_countdown, total_sends, window_sends,
          mark_time, since_mark, worker, countdown_i, total_seconds>>

-----------------------------------------------------------------------------
(* Bounds of the model *)

TicksPerSecond == 2
MaxTime == 142
MaxIdle == 1
MaxSendDelay == 1
MaxOvershoot == 1
MaxWords == 2
MaxChunks == 3
MaxCalls == 3
MaxStartup == 12
MaxCountdown == 3

(* Constants of the program *)

min_request_interval == 4
rpm_limit == 15
window_seconds == 60
max_retries == 3

Secs(n) == n * TicksPerSecond

\* int(x) of a duration x given in ticks: whole seconds, truncated toward zero.
IntSeconds(t) == IF t >= 0 THEN t \div TicksPerSecond ELSE -((-t) \div TicksPerSecond)

\* time.time() when __init__ runs: later than min_request_interval after the
\* epoch, the value last_request_time starts from.
StartTime == Secs(min_request_interval) + 1

None == <<"None">>

-----------------------------------------------------------------------------
(* Strings *)

UpperLetters == <<"A","B","C","D","E","F","G","H","I","J","K","L","M","N","O","P","Q","R","S","T","U","V","W","X","Y","Z">>
LowerLetters == <<"a","b","c","d","e","f","g","h","i","j","k","l","m","n","o","p","q","r","s","t","u","v","w","x","y","z">>
Whitespace == {" ", "\t", "\n"}
Digits == <<"0","1","2","3","4","5","6","7","8","9">>

LowerChar(c) ==
    IF \E i \in 1..Len(UpperLetters) : UpperLetters[i] = c
    THEN LowerLetters[CHOOSE i \in 1..Len(UpperLetters) : UpperLetters[i] = c]
    ELSE c

\* str.lower()
Lower(s) == [i \in 1..Len(s) |-> LowerChar(s[i])]

\* s[i:i+len(lit)] == lit
HasAt(s, i, lit) ==
    /\ i >= 1
    /\ i + Len(lit) - 1 <= Len(s)
    /\ \A k \in 1..Len(lit) : s[i + k - 1] = lit[k]

\* lit in s
Contains(s, lit) == \E i \in 1..(Len(s) + 1) : HasAt(s, i, lit)

\* str.split(): the maximal runs of non-whitespace characters, in order.
RECURSIVE SplitFrom(_, _, _)
SplitFrom(s, i, word) ==
    IF i > Len(s)
    THEN IF word = <<>> THEN <<>> ELSE <<word>>
    ELSE IF s[i] \in Whitespace
         THEN (IF word = <<>> THEN <<>> ELSE <<word>>) \o SplitFrom(s, i + 1, <<>>)
         ELSE SplitFrom(s, i + 1, Append(word, s[i]))

Split(s) == SplitFrom(s, 1, <<>>)

\* The program's fixed messages
NotInitMsg == <<"C","h","a","t","b","o","t"," ","d","u","z","g","u","n"," ","b","a","s","l","a","t","i","l","a","m","a","d","i","."," ","L","u","t","f","e","n"," ","k","u","r","u","l","u","m","u"," ","k","o","n","t","r","o","l"," ","e","d","i","n",".">>
MaxRetriesMsg == <<"M","a","k","s","i","m","u","m"," ","d","e","n","e","m","e"," ","s","a","y","i","s","i","n","a"," ","u","l","a","s","i","l","d","i","."," ","L","u","t","f","e","n"," ","d","a","h","a"," ","s","o","n","r","a"," ","t","e","k","r","a","r"," ","d","e","n","e","y","i","n",".">>
ErrPrefix == <<"H","a","t","a"," ","o","l","u","s","t","u",":"," ">>
InputPrompt == <<"S","o","r","u","n","u","z",":"," ">>
QuitWord == <<"q","u","i","t">>
QuotaWord == <<"q","u","o","t","a">>
RetryDelayLit == <<"r","e","t","r","y","_","d","e","l","a","y">>
OpenBrace == <<"{">>
SecondsLit == <<"s","e","c","o","n","d","s",":">>

-----------------------------------------------------------------------------
(* find_relevant_chunk *)

\* [word for word in question_lower.split() if len(word) > 3]
IsKeyword(word) == Len(word) > 3

Keywords(q) == SelectSeq(Split(Lower(q)), IsKeyword)

\* The inner loop: one point for each keyword found in the lowercased chunk.
Score(chunk, keywords) ==
    Cardinality({k \in 1..Len(keywords) : Contains(Lower(chunk), keywords[k])})

\* Mutant of Better: a later fragment with an equal score replaces the best.
C8_BetterOrEqual(score, best_score) == score >= best_score

\* if score > best_score
Better(score, best_score) == score > best_score

\* The outer loop over self.text_chunks, from chunk i on.
RECURSIVE ScanChunks(_, _, _, _, _)
ScanChunks(chunks, keywords, i, best_chunk, best_score) ==
    IF i > Len(chunks)
    THEN best_chunk
    ELSE LET score == Score(chunks[i], keywords)
         IN  IF Better(score, best_score)
             THEN ScanChunks(chunks, keywords, i + 1, chunks[i], score)
             ELSE ScanChunks(chunks, keywords, i + 1, best_chunk, best_score)

find_relevant_chunk(q) == ScanChunks(text_chunks, Keywords(q), 1, text_chunks[1], 0)

-----------------------------------------------------------------------------
(* handle_quota_error *)

IsDigit(c) == \E k \in 1..Len(Digits) : Digits[k] = c

DigitValue(c) == (CHOOSE k \in 1..Len(Digits) : Digits[k] = c) - 1

\* \s* from position i: the first position at or after i that holds no whitespace.
RECURSIVE SkipWs(_, _)
SkipWs(s, i) == IF i <= Len(s) /\ s[i] \in Whitespace THEN SkipWs(s, i + 1) ELSE i

\* (\d+) from position i: the digits of the longest run starting there.
RECURSIVE DigitRun(_, _)
DigitRun(s, i) ==
    IF i <= Len(s) /\ IsDigit(s[i]) THEN <<s[i]>> \o DigitRun(s, i + 1) ELSE <<>>

\* int(digits)
RECURSIVE ParseInt(_)
ParseInt(digits) ==
    IF digits = <<>> THEN 0
    ELSE 10 * ParseInt(SubSeq(digits, 1, Len(digits) - 1)) + DigitValue(digits[Len(digits)])

\* The pattern retry_delay\s*{\s*seconds:\s*(\d+) matched at position i:
\* the text of group 1, or <<>> when the pattern does not match there.
RetryDelayAt(s, i) ==
    LET brace   == SkipWs(s, i + Len(RetryDelayLit))
        seconds == SkipWs(s, brace + Len(OpenBrace))
        number  == SkipWs(s, seconds + Len(SecondsLit))
    IN  IF /\ HasAt(s, i, RetryDelayLit)
           /\ HasAt(s, brace, OpenBrace)
           /\ HasAt(s, seconds, SecondsLit)
        THEN DigitRun(s, number)
        ELSE <<>>

\* re.search(...): group 1 of the leftmost match, or None.
RetryDelaySearch(s) ==
    IF \E i \in 1..Len(s) : RetryDelayAt(s, i) # <<>>
    THEN LET first == CHOOSE i \in 1..Len(s) :
                        /\ RetryDelayAt(s, i) # <<>>
                        /\ \A j \in 1..(i - 1) : RetryDelayAt(s, j) = <<>>
         IN  RetryDelayAt(s, first)
    ELSE None

\* handle_quota_error(error_message): whether to retry, and the seconds slept.
handle_quota_error(message) ==
    LET retry_delay == RetryDelaySearch(message)
    IN  IF retry_delay # None
        THEN [retry |-> TRUE, wait_time |-> ParseInt(retry_delay)]
        ELSE [retry |-> FALSE, wait_time |-> 0]

\* Mutant of IsQuota: the marker is looked for without lowercasing the message.
C5_IsQuotaCaseSensitive(message) == Contains(message, QuotaWord)

\* "quota" in error_message.lower()
IsQuota(message) == Contains(Lower(message), QuotaWord)

-----------------------------------------------------------------------------
(* wait_for_rate_limit *)

\* if current_time - self.last_minute_start >= 60
WindowElapsed(current_time) ==
    current_time - last_minute_start >= Secs(window_seconds)

\* Mutant of CapReached: the cap test is off by one.
C2_CapOffByOne(count) == count > rpm_limit

\* if self.requests_in_last_minute >= 15
CapReached(count) == count >= rpm_limit

\* Mutant of WindowWaitTime: the remainder of the window is taken to be over.
C3_NoWindowWait(current_time, start) == 0

\* wait_time = 60 - (current_time - self.last_minute_start)
WindowWaitTime(current_time, start) == Secs(window_seconds) - (current_time - start)

\* if time_since_last_request < self.min_request_interval
TooSoon(time_since_last_request) == time_since_last_request < Secs(min_request_interval)

\* wait_time = int(self.min_request_interval - time_since_last_request), in ticks
InterRequestWaitTime(time_since_last_request) ==
    Secs(IntSeconds(Secs(min_request_interval) - time_since_last_request))

\* Mutant of CountRequest: the request is not counted.
C17_NoCount(count) == count

\* self.requests_in_last_minute += 1
CountRequest(count) == count + 1

\* The whole call, entered at the current clock value; o1 and o2 are the extra
\* times of the two sleeps.  Returns the clock value at the end, the new
\* limiter state, whether the window was reset and the countdown threads run.
wait_for_rate_limit(o1, o2) ==
    LET current_time == now
        count1 == IF WindowElapsed(current_time) THEN 0 ELSE requests_in_last_minute
        start1 == IF WindowElapsed(current_time) THEN current_time ELSE last_minute_start
        blocks == CapReached(count1) /\ WindowWaitTime(current_time, start1) > 0
        time1  == IF blocks
                  THEN current_time + WindowWaitTime(current_time, start1) + o1
                  ELSE current_time
        count2 == IF blocks THEN 0 ELSE count1
        start2 == IF blocks THEN time1 ELSE start1
        time_since_last_request == current_time - last_request_time
        time2  == IF TooSoon(time_since_last_request)
                  THEN time1 + InterRequestWaitTime(time_since_last_request) + o2
                  ELSE time1
    IN  [time |-> time2,
         last_request_time |-> time2,
         requests_in_last_minute |-> CountRequest(count2),
         last_minute_start |-> start2,
         next_available_time |-> time2 + Secs(min_request_interval),
         window_wait |-> blocks,
         window_resumed |-> time1,
         window_reset |-> WindowElapsed(current_time) \/ blocks,
         countdowns |-> (IF blocks THEN 1 ELSE 0)
                        + (IF TooSoon(time_since_last_request) THEN 1 ELSE 0)]

-----------------------------------------------------------------------------
(* The environment: documents, input lines, remote replies and errors *)

C_1 == <<"x","y","z"," ","a","b","c">>
C_2 == <<"t","h","e"," ","A","B","C","D","E">>

\* What text_splitter.split_text can return: no fragment for an empty text,
\* or the fragments of the document.
Docs == {<<>>, <<C_1, C_2>>}

L_quit == <<"q","u","i","t">>
L_QuIt == <<"Q","u","I","t">>
L_spquit == <<" ","q","u","i","t">>
L_abcd == <<"A","b","c","d"," ","i","s">>

Lines == {L_quit, L_QuIt, L_spquit, L_abcd}

ReplyA == <<"E","v","e","t",".">>

Replies == {ReplyA}

E_QuotaDelay == <<"4","2","9"," ","Q","u","o","t","a"," ","e","x","c","e","e","d","e","d"," ","r","e","t","r","y","_","d","e","l","a","y"," ","{","\n"," ","s","e","c","o","n","d","s",":"," ","2","\n","}">>
E_QuotaTight == <<"q","u","o","t","a"," ","r","e","t","r","y","_","d","e","l","a","y","{","s","e","c","o","n","d","s",":","0","1","}">>
E_QuotaNoDelay == <<"Q","U","O","T","A"," ","e","x","c","e","e","d","e","d">>
E_QuotaBadDelay == <<"q","u","o","t","a"," ","r","e","t","r","y","_","d","e","l","a","y"," ","{"," ","s","e","c","o","n","d","s",":"," ","x"," ","}">>
E_DelayNoQuota == <<"b","u","s","y"," ","r","e","t","r","y","_","d","e","l","a","y"," ","{"," ","s","e","c","o","n","d","s",":"," ","2"," ","}">>
E_Plain == <<"t","i","m","e","o","u","t">>
E_NoText == <<"n","o"," ","t","e","x","t">>

\* The exceptions chat.send_message raises: a class and str(e).
SendErrors ==
    {[cls |-> "ResourceExhausted", msg |-> E_QuotaDelay],
     [cls |-> "ResourceExhausted", msg |-> E_QuotaTight],
     [cls |-> "ResourceExhausted", msg |-> E_QuotaNoDelay],
     [cls |-> "ResourceExhausted", msg |-> E_QuotaBadDelay],
     [cls |-> "ServiceUnavailable", msg |-> E_DelayNoQuota],
     [cls |-> "TimeoutError", msg |-> E_Plain]}

\* The exception response.text raises when the reply holds no text.
ReadErrors == {[cls |-> "ValueError", msg |-> E_NoText]}

\* The classes above all derive from Exception.
ExceptionSubclasses ==
    {"ResourceExhausted", "ServiceUnavailable", "TimeoutError", "ValueError"}

FatalMsg == <<"C","h","a","t","b","o","t"," ","b","a","s","l","a","t","i","l","a","m","a","d","i","."," ","L","u","t","f","e","n"," ","k","u","r","u","l","u","m","u"," ","k","o","n","t","r","o","l"," ","e","d","i","n",".">>
ReadyMsg == <<"N","o","t",":"," ","T","o","k","e","n"," ","k","o","t","a","s","i"," ","a","s","i","l","i","r","s","a"," ","o","t","o","m","a","t","i","k"," ","o","l","a","r","a","k"," ","b","e","k","l","e","y","e","c","e","k","t","i","r",".">>
AnswerPrefix == <<"C","e","v","a","p",":"," ">>

-----------------------------------------------------------------------------
(* The state after GooglePDFChatbot(pdf_path, api_key), main() about to call
   initialize() *)

Init ==
    /\ now = StartTime
    /\ text_chunks = <<>>
    /\ model = None
    /\ last_request_time = 0
    /\ requests_in_last_minute = 0
    /\ last_minute_start = StartTime
    /\ next_available_time = 0
    /\ pc = "load_pdf"
    /\ question = None
    /\ retry_count = 0
    /\ relevant_chunk = None
    /\ answer = None
    /\ stdout = None
    /\ sends = 0
    /\ reply = None
    /\ recorded = 0
    /\ first_window_start = 0
    /\ window_waits = 0
    /\ error_message = None
    /\ startup_error = ""
    /\ setup_called = FALSE
    /\ stop_countdown = FALSE
    /\ total_sends = 0
    /\ window_sends = 0
    /\ mark_time = 0
    /\ since_mark = 0
    /\ worker = "idle"
    /\ countdown_i = 0
    /\ total_seconds = 0

limiter == <<last_request_time, requests_in_last_minute, last_minute_start,
             next_available_time, recorded, first_window_start, window_waits>>
startup == <<text_chunks, model, startup_error, setup_called>>
call == <<retry_count, relevant_chunk, answer, sends, reply, error_message>>
sent == <<total_sends, window_sends>>
marks == <<mark_time, since_mark>>
countdown == <<worker, countdown_i, total_seconds>>

-----------------------------------------------------------------------------
(* initialize and the start of main *)

\* Mutant of AfterLoadPdf: the result of load_pdf is ignored.
C10_IgnoreLoadResult(loaded) == "setup_model"

\* initialize: "if not self.load_pdf(): return False", else go on to setup_model
AfterLoadPdf(loaded) == IF loaded THEN "setup_model" ELSE "init_failed"

\* initialize: "if not self.setup_model(): return False", else return True;
\* main enters its loop when initialize returned True
AfterSetupModel(ready) == IF ready THEN "input" ELSE "init_failed"

\* load_pdf reads and splits the document and returns True.
LoadPdfOk(doc, d) ==
    /\ pc = "load_pdf"
    /\ now + d <= MaxTime
    /\ now' = now + d
    /\ text_chunks' = doc
    /\ pc' = AfterLoadPdf(TRUE)
    /\ UNCHANGED <<model, startup_error, setup_called, limiter, call, question, stdout,
                   sent, marks, countdown, stop_countdown>>

\* load_pdf catches an exception of the reader or the splitter and returns False.
LoadPdfFail(d) ==
    /\ pc = "load_pdf"
    /\ now + d <= MaxTime
    /\ now' = now + d
    /\ startup_error' = "load_pdf"
    /\ pc' = AfterLoadPdf(FALSE)
    /\ UNCHANGED <<text_chunks, model, setup_called, limiter, call, question, stdout,
                   sent, marks, countdown, stop_countdown>>

\* setup_model configures the API, creates the model and the chat, returns True.
SetupModelOk(d) ==
    /\ pc = "setup_model"
    /\ now + d <= MaxTime
    /\ now' = now + d
    /\ model' = <<"GenerativeModel">>
    /\ setup_called' = TRUE
    /\ pc' = AfterSetupModel(TRUE)
    /\ stdout' = IF pc' = "input" THEN ReadyMsg ELSE stdout
    /\ UNCHANGED <<text_chunks, startup_error, limiter, call, question,
                   sent, marks, countdown, stop_countdown>>

\* setup_model catches an exception and returns False; self.model is set or
\* not, as the exception came from start_chat or from an earlier line.
SetupModelFail(d, m) ==
    /\ pc = "setup_model"
    /\ now + d <= MaxTime
    /\ now' = now + d
    /\ model' = m
    /\ setup_called' = TRUE
    /\ startup_error' = "setup_model"
    /\ pc' = AfterSetupModel(FALSE)
    /\ UNCHANGED <<text_chunks, limiter, call, question, stdout,
                   sent, marks, countdown, stop_countdown>>

\* main: initialize returned False; print the diagnostic and return.
MainStop ==
    /\ pc = "init_failed"
    /\ stdout' = FatalMsg
    /\ pc' = "stopped"
    /\ UNCHANGED <<now, startup, limiter, call, question, sent, marks, countdown, stop_countdown>>

-----------------------------------------------------------------------------
(* The CLI loop *)

\* Mutant of IsQuit: the sentinel is looked for anywhere in the line.
C7_QuitAnywhere(line) == Contains(Lower(line), QuitWord)

\* if question.lower() == 'quit'
IsQuit(line) == Lower(line) = QuitWord

\* question = input("\nSorunuz: "), after the user took d ticks to answer;
\* then break, or the call of ask_question with retry_count = 0.
ReadInput(line, d) ==
    /\ pc = "input"
    /\ now + d <= MaxTime
    /\ now' = now + d
    /\ stdout' = InputPrompt
    /\ question' = line
    /\ IF IsQuit(line)
       THEN /\ pc' = "exit"
            /\ UNCHANGED call
       ELSE /\ pc' = "ask"
            /\ retry_count' = 0
            /\ relevant_chunk' = None
            /\ answer' = None
            /\ sends' = 0
            /\ reply' = None
            /\ error_message' = None
    /\ UNCHANGED <<startup, limiter, sent, marks, countdown, stop_countdown>>

\* print(f"\nCevap: {answer}") and back to input()
PrintAnswer ==
    /\ pc = "print"
    /\ stdout' = AnswerPrefix \o answer
    /\ pc' = "input"
    /\ UNCHANGED <<now, startup, limiter, call, question, sent, marks, countdown, stop_countdown>>

-----------------------------------------------------------------------------
(* ask_question *)

\* Mutant of LoopContinues: the loop bound is off by one.
C4_LoopOffByOne(count) == count <= max_retries

\* while retry_count < max_retries
LoopContinues(count) == count < max_retries

\* if not self.text_chunks or not self.model
NotInitialised == text_chunks = <<>> \/ model = None

\* Mutant of ReplyAnswer: the reply is lowercased before it is returned.
C9_LoweredReply(text) == Lower(text)

\* return response.text
ReplyAnswer(text) == text

\* Mutant of ErrorAnswer: the message is returned as it is.
C12_BareMessage(message) == message

\* return f"Hata olustu: {error_message}"
ErrorAnswer(message) == ErrPrefix \o message

\* Mutant of Catches: the clause names the API's quota error only.
C6_CatchesQuotaOnly(cls) == cls = "ResourceExhausted"

\* except Exception as e
Catches(cls) == cls \in ExceptionSubclasses

\* The loop condition is false: return the max-retries message.
AskExhausted ==
    /\ pc = "ask"
    /\ ~LoopContinues(retry_count)
    /\ answer' = MaxRetriesMsg
    /\ relevant_chunk' = None
    /\ pc' = "print"
    /\ UNCHANGED <<now, startup, limiter, question, stdout, retry_count, sends, reply,
                   error_message, sent, marks, countdown, stop_countdown>>

\* Mutant of AskNotInitialised: the request is recorded before the guard of
\* line 175 is looked at.
C16_RecordsFirst ==
    /\ pc = "ask"
    /\ LoopContinues(retry_count)
    /\ NotInitialised
    /\ last_request_time' = now
    /\ requests_in_last_minute' = CountRequest(requests_in_last_minute)
    /\ next_available_time' = now + Secs(min_request_interval)
    /\ answer' = NotInitMsg
    /\ relevant_chunk' = None
    /\ pc' = "print"
    /\ UNCHANGED <<now, startup, last_minute_start, recorded, first_window_start,
                   window_waits, question, stdout, retry_count, sends, reply,
                   error_message, sent, marks, countdown, stop_countdown>>

\* The guard of line 175: return the not-initialised message.
AskNotInitialised ==
    /\ pc = "ask"
    /\ LoopContinues(retry_count)
    /\ NotInitialised
    /\ answer' = NotInitMsg
    /\ relevant_chunk' = None
    /\ pc' = "print"
    /\ UNCHANGED <<now, startup, limiter, question, stdout, retry_count, sends, reply,
                   error_message, sent, marks, countdown, stop_countdown>>

\* One attempt up to the send: wait_for_rate_limit, then find_relevant_chunk.
\* f is the value the countdown threads of the call leave in stop_countdown;
\* marked tells whether the request recorded here is the marked one.
AskAttempt(o1, o2, f, marked) ==
    /\ pc = "ask"
    /\ LoopContinues(retry_count)
    /\ ~NotInitialised
    /\ LET r == wait_for_rate_limit(o1, o2)
       IN  /\ r.time <= MaxTime
           /\ now' = r.time
           /\ last_request_time' = r.last_request_time
           /\ requests_in_last_minute' = r.requests_in_last_minute
           /\ last_minute_start' = r.last_minute_start
           /\ next_available_time' = r.next_available_time
           /\ recorded' = recorded + 1
           /\ first_window_start' =
                 IF recorded = 0 THEN r.last_minute_start ELSE first_window_start
           /\ window_waits' = IF r.window_wait THEN window_waits + 1 ELSE window_waits
           /\ stop_countdown' = IF r.countdowns > 0 THEN f ELSE stop_countdown
           /\ window_sends' = IF r.window_reset THEN 0 ELSE window_sends
           /\ mark_time' = IF marked THEN r.time ELSE mark_time
    /\ since_mark' = IF marked THEN 1
                     ELSE IF since_mark \in 1..rpm_limit THEN since_mark + 1
                     ELSE since_mark
    /\ relevant_chunk' = find_relevant_chunk(question)
    /\ pc' = "send"
    /\ UNCHANGED <<startup, question, stdout, retry_count, answer, sends, reply,
                   error_message, total_sends, countdown>>

AskRequest(o1, o2, f) == AskAttempt(o1, o2, f, FALSE)

\* chat.send_message returns after d ticks and response.text is the reply.
SendReply(d, text) ==
    /\ pc = "send"
    /\ now + d <= MaxTime
    /\ now' = now + d
    /\ sends' = sends + 1
    /\ reply' = text
    /\ answer' = ReplyAnswer(text)
    /\ relevant_chunk' = None
    /\ pc' = "print"
    /\ total_sends' = total_sends + 1
    /\ window_sends' = window_sends + 1
    /\ UNCHANGED <<startup, limiter, question, stdout, retry_count, error_message,
                   marks, countdown, stop_countdown>>

\* What lines 210 and 211 compute for each exception of the environment:
\* "quota" in error_message.lower(), and the result of handle_quota_error.
Handled ==
    [e \in SendErrors \union ReadErrors |->
        [quota |-> IsQuota(e.msg), plan |-> handle_quota_error(e.msg)]]

\* The except clause of ask_question for exception e raised at time t; o is
\* the extra time of the sleep in handle_quota_error and f the value its
\* countdown thread leaves in stop_countdown.
Except(e, t, o, f) ==
    /\ relevant_chunk' = None
    /\ error_message' = IF Catches(e.cls) THEN e.msg ELSE error_message
    /\ IF ~Catches(e.cls)
       THEN /\ pc' = "crashed"
            /\ now' = t
            /\ UNCHANGED <<retry_count, answer, stop_countdown>>
       ELSE IF Handled[e].quota /\ Handled[e].plan.retry
       THEN /\ t + Secs(Handled[e].plan.wait_time) + o <= MaxTime
            /\ now' = t + Secs(Handled[e].plan.wait_time) + o
            /\ retry_count' = retry_count + 1
            /\ pc' = "ask"
            /\ stop_countdown' = f
            /\ UNCHANGED answer
       ELSE /\ now' = t
            /\ answer' = ErrorAnswer(e.msg)
            /\ pc' = "print"
            /\ UNCHANGED <<retry_count, stop_countdown>>

\* chat.send_message raises e after d ticks.
SendRaises(d, e, o, f) ==
    /\ pc = "send"
    /\ now + d <= MaxTime
    /\ sends' = sends + 1
    /\ total_sends' = total_sends + 1
    /\ window_sends' = window_sends + 1
    /\ Except(e, now + d, o, f)
    /\ UNCHANGED <<startup, limiter, question, stdout, reply, marks, countdown>>

\* chat.send_message returns after d ticks and response.text raises e.
ReadRaises(d, e, o, f) ==
    /\ pc = "send"
    /\ now + d <= MaxTime
    /\ sends' = sends + 1
    /\ total_sends' = total_sends + 1
    /\ window_sends' = window_sends + 1
    /\ Except(e, now + d, o, f)
    /\ UNCHANGED <<startup, limiter, question, stdout, reply, marks, countdown>>

-----------------------------------------------------------------------------

Next ==
    \/ \E doc \in Docs, d \in 0..MaxIdle : LoadPdfOk(doc, d)
    \/ \E d \in 0..MaxIdle : LoadPdfFail(d)
    \/ \E d \in 0..MaxIdle : SetupModelOk(d)
    \/ \E d \in 0..MaxIdle, m \in {None, <<"GenerativeModel">>} : SetupModelFail(d, m)
    \/ MainStop
    \/ \E line \in Lines, d \in 0..MaxIdle : ReadInput(line, d)
    \/ PrintAnswer
    \/ AskExhausted
    \/ AskNotInitialised
    \/ \E o1, o2 \in 0..MaxOvershoot, f \in BOOLEAN : AskRequest(o1, o2, f)
    \/ \E d \in 0..MaxSendDelay, text \in Replies : SendReply(d, text)
    \/ \E d \in 0..MaxSendDelay, e \in SendErrors, o \in 0..MaxOvershoot, f \in BOOLEAN :
          SendRaises(d, e, o, f)
    \/ \E d \in 0..MaxSendDelay, e \in ReadErrors, o \in 0..MaxOvershoot, f \in BOOLEAN :
          ReadRaises(d, e, o, f)

Spec == Init /\ [][Next]_vars

-----------------------------------------------------------------------------
(* ask_question called on an object whatever its startup left: a caller that
   did not call initialize, or did not look at what it returned *)

InitCall ==
    /\ now = StartTime
    /\ text_chunks \in Docs
    /\ model \in {None, <<"GenerativeModel">>}
    /\ last_request_time = 0
    /\ requests_in_last_minute = 0
    /\ last_minute_start = StartTime
    /\ next_available_time = 0
    /\ pc = "input"
    /\ question = None
    /\ retry_count = 0
    /\ relevant_chunk = None
    /\ answer = None
    /\ stdout = None
    /\ sends = 0
    /\ reply = None
    /\ recorded = 0
    /\ first_window_start = 0
    /\ window_waits = 0
    /\ error_message = None
    /\ startup_error = ""
    /\ setup_called = (model # None)
    /\ stop_countdown = FALSE
    /\ total_sends = 0
    /\ window_sends = 0
    /\ mark_time = 0
    /\ since_mark = 0
    /\ worker = "idle"
    /\ countdown_i = 0
    /\ total_seconds = 0

\* An attempt of one of the first MaxCalls requests.
CallRequest(o1, o2, f) ==
    /\ recorded < MaxCalls
    /\ AskRequest(o1, o2, f)

NextCall ==
    \/ \E line \in Lines, d \in 0..MaxIdle : ReadInput(line, d)
    \/ PrintAnswer
    \/ AskExhausted
    \/ AskNotInitialised
    \/ \E o1, o2 \in 0..MaxOvershoot, f \in BOOLEAN : CallRequest(o1, o2, f)
    \/ \E d \in 0..MaxSendDelay, text \in Replies : SendReply(d, text)
    \/ \E d \in 0..MaxSendDelay, e \in SendErrors, o \in 0..MaxOvershoot, f \in BOOLEAN :
          SendRaises(d, e, o, f)
    \/ \E d \in 0..MaxSendDelay, e \in ReadErrors, o \in 0..MaxOvershoot, f \in BOOLEAN :
          ReadRaises(d, e, o, f)

SpecCall == InitCall /\ [][NextCall]_vars

-----------------------------------------------------------------------------
(* A session whose sends all succeed, with one recorded request marked to
   count the requests recorded from it on *)

\* The state after a successful startup, main about to read the first line:
\* at once, or MaxStartup seconds after the construction of the object.
InitRolling ==
    /\ now \in {StartTime, StartTime + Secs(MaxStartup)}
    /\ text_chunks = <<C_1, C_2>>
    /\ model = <<"GenerativeModel">>
    /\ last_request_time = 0
    /\ requests_in_last_minute = 0
    /\ last_minute_start = StartTime
    /\ next_available_time = 0
    /\ pc = "input"
    /\ question = None
    /\ retry_count = 0
    /\ relevant_chunk = None
    /\ answer = None
    /\ stdout = ReadyMsg
    /\ sends = 0
    /\ reply = None
    /\ recorded = 0
    /\ first_window_start = 0
    /\ window_waits = 0
    /\ error_message = None
    /\ startup_error = ""
    /\ setup_called = TRUE
    /\ stop_countdown = FALSE
    /\ total_sends = 0
    /\ window_sends = 0
    /\ mark_time = 0
    /\ since_mark = 0
    /\ worker = "idle"
    /\ countdown_i = 0
    /\ total_seconds = 0

\* An attempt whose request is the marked one.
MarkedRequest(o1, o2, f) ==
    /\ since_mark = 0
    /\ AskAttempt(o1, o2, f, TRUE)

NextRolling ==
    \/ \E d \in 0..MaxIdle : ReadInput(L_abcd, d)
    \/ PrintAnswer
    \/ \E o1, o2 \in 0..MaxOvershoot, f \in BOOLEAN : AskRequest(o1, o2, f)
    \/ \E o1, o2 \in 0..MaxOvershoot, f \in BOOLEAN : MarkedRequest(o1, o2, f)
    \/ \E d \in 0..MaxSendDelay : SendReply(d, ReplyA)

SpecRolling == InitRolling /\ [][NextRolling]_vars

-----------------------------------------------------------------------------
(* One wait with its countdown thread, step by step: the main flow starts the
   thread, sleeps, sets stop_countdown and joins (lines 94-101, 110-117 and
   157-164), while the thread runs show_countdown.  Nothing orders the steps
   of the two but the start of the thread and the join. *)

\* The wait is entered with what an earlier wait left in stop_countdown and
\* a whole number of seconds to count down.
InitCountdown ==
    /\ now = StartTime
    /\ text_chunks = <<C_1, C_2>>
    /\ model = <<"GenerativeModel">>
    /\ last_request_time = 0
    /\ requests_in_last_minute = 0
    /\ last_minute_start = StartTime
    /\ next_available_time = 0
    /\ pc = "start_thread"
    /\ question = L_abcd
    /\ retry_count = 0
    /\ relevant_chunk = None
    /\ answer = None
    /\ stdout = InputPrompt
    /\ sends = 0
    /\ reply = None
    /\ recorded = 0
    /\ first_window_start = 0
    /\ window_waits = 0
    /\ error_message = None
    /\ startup_error = ""
    /\ setup_called = TRUE
    /\ stop_countdown \in BOOLEAN
    /\ total_sends = 0
    /\ window_sends = 0
    /\ mark_time = 0
    /\ since_mark = 0
    /\ worker = "idle"
    /\ countdown_i = 0
    /\ total_seconds \in 0..MaxCountdown

session == <<now, startup, limiter, call, question, stdout, sent, marks>>

\* countdown_thread.start()
StartThread ==
    /\ pc = "start_thread"
    /\ worker' = "started"
    /\ pc' = "sleep"
    /\ UNCHANGED <<session, stop_countdown, countdown_i, total_seconds>>

\* time.sleep(wait_time) returns
Sleep ==
    /\ pc = "sleep"
    /\ pc' = "set_flag"
    /\ UNCHANGED <<session, stop_countdown, countdown>>

\* self.stop_countdown = True
SetFlag ==
    /\ pc = "set_flag"
    /\ stop_countdown' = TRUE
    /\ pc' = "join"
    /\ UNCHANGED <<session, countdown>>

\* countdown_thread.join() returns once the thread has ended
JoinThread ==
    /\ pc = "join"
    /\ worker = "done"
    /\ pc' = "returned"
    /\ UNCHANGED <<session, stop_countdown, countdown>>

\* show_countdown: self.stop_countdown = False, and the loop is entered
WorkerReset ==
    /\ worker = "started"
    /\ stop_countdown' = FALSE
    /\ countdown_i' = total_seconds
    /\ worker' = "check"
    /\ UNCHANGED <<session, pc, total_seconds>>

\* Mutant of NextTick: the loop variable does not go down.
C15_StuckTick(i) == i

\* for i in range(total_seconds, 0, -1): the value after i
NextTick(i) == i - 1

\* The head of the loop: the range is exhausted, or the flag is seen and the
\* loop is left, or the body goes on to print.
WorkerCheck ==
    /\ worker = "check"
    /\ worker' = IF countdown_i = 0 \/ stop_countdown THEN "clear" ELSE "tick"
    /\ UNCHANGED <<session, pc, stop_countdown, countdown_i, total_seconds>>

\* print the seconds left and time.sleep(1)
WorkerTick ==
    /\ worker = "tick"
    /\ countdown_i' = NextTick(countdown_i)
    /\ worker' = "check"
    /\ UNCHANGED <<session, pc, stop_countdown, total_seconds>>

\* The line of the countdown is cleared and the thread ends.
WorkerClear ==
    /\ worker = "clear"
    /\ worker' = "done"
    /\ UNCHANGED <<session, pc, stop_countdown, countdown_i, total_seconds>>

MainStep == StartThread \/ Sleep \/ SetFlag \/ JoinThread

WorkerStep == WorkerReset \/ WorkerCheck \/ WorkerTick \/ WorkerClear

NextCountdown ==
    \/ StartThread
    \/ Sleep
    \/ SetFlag
    \/ JoinThread
    \/ WorkerReset
    \/ WorkerCheck
    \/ WorkerTick
    \/ WorkerClear

SpecCountdown == InitCountdown /\ [][NextCountdown]_vars

\* Both threads are scheduled again and again, and a sleep ends.
SpecCountdownFair ==
    /\ InitCountdown
    /\ [][NextCountdown]_vars
    /\ WF_vars(MainStep)
    /\ WF_vars(WorkerStep)

-----------------------------------------------------------------------------
(* find_relevant_chunk on its own: questions and documents drawn from small
   vocabularies, one call of the function *)

W_abcd == <<"a","b","c","d">>
W_BCDE == <<"B","C","D","E">>
W_abc == <<"a","b","c">>
W_wxyz == <<"w","x","y","z">>

SelWords == {W_abcd, W_BCDE, W_abc, W_wxyz}

SelSeparators == {<<" ">>, <<"\t", " ">>}

F_abcde == <<"a","b","c","d","e">>
F_xABCD == <<"x","A","B","C","D">>
F_wxyz_bcde == <<"w","x","y","z"," ","b","c","d","e">>

SelFragments == {F_abcde, F_xABCD, F_wxyz_bcde}

SeqsUpTo(S, n) == UNION {[1..k -> S] : k \in 0..n}

RECURSIVE Join(_, _)
Join(words, sep) ==
    IF words = <<>> THEN <<>>
    ELSE IF Len(words) = 1 THEN words[1]
    ELSE words[1] \o sep \o Join(Tail(words), sep)

SelQuestions ==
    {Join(ws, sep) : ws \in SeqsUpTo(SelWords, MaxWords), sep \in SelSeparators}
    \cup {<<" ">> \o Join(ws, <<" ">>) \o <<"\n">> : ws \in SeqsUpTo(SelWords, 1)}

SelDocs == SeqsUpTo(SelFragments, MaxChunks) \ {<<>>}

InitSelector ==
    /\ now = StartTime
    /\ text_chunks \in SelDocs
    /\ model = <<"GenerativeModel">>
    /\ last_request_time = 0
    /\ requests_in_last_minute = 0
    /\ last_minute_start = StartTime
    /\ next_available_time = 0
    /\ pc = "select"
    /\ question \in SelQuestions
    /\ retry_count = 0
    /\ relevant_chunk = None
    /\ answer = None
    /\ stdout = None
    /\ sends = 0
    /\ reply = None
    /\ recorded = 0
    /\ first_window_start = 0
    /\ window_waits = 0
    /\ error_message = None
    /\ startup_error = ""
    /\ setup_called = TRUE
    /\ stop_countdown = FALSE
    /\ total_sends = 0
    /\ window_sends = 0
    /\ mark_time = 0
    /\ since_mark = 0
    /\ worker = "idle"
    /\ countdown_i = 0
    /\ total_seconds = 0

\* relevant_chunk = self.find_relevant_chunk(question)
FindRelevantChunk ==
    /\ pc = "select"
    /\ relevant_chunk' = find_relevant_chunk(question)
    /\ pc' = "selected"
    /\ UNCHANGED <<now, startup, limiter, question, stdout, retry_count, answer,
                   sends, reply, error_message, sent, marks, countdown, stop_countdown>>

NextSelector == FindRelevantChunk

SpecSelector == InitSelector /\ [][NextSelector]_vars

-----------------------------------------------------------------------------
(* C8 *)

\* The tokens of s as spans <<i, j>>: the maximal runs of non-whitespace.
C8_Tokens(s) ==
    {sp \in (1..Len(s)) \X (1..Len(s)) :
        /\ sp[1] <= sp[2]
        /\ \A k \in sp[1]..sp[2] : s[k] \notin Whitespace
        /\ sp[1] = 1 \/ s[sp[1] - 1] \in Whitespace
        /\ sp[2] = Len(s) \/ s[sp[2] + 1] \in Whitespace}

\* The keywords of a question: the tokens of the lowercased question longer
\* than 3 characters, each occurrence counted.
C8_KeywordSpans(q) == {sp \in C8_Tokens(Lower(q)) : sp[2] - sp[1] + 1 > 3}

C8_Has(q, sp, fragment) == Contains(Lower(fragment), SubSeq(Lower(q), sp[1], sp[2]))

\* A fragment's count: the keywords that occur in the lowercased fragment.
C8_Count(q, fragment) ==
    Cardinality({sp \in C8_KeywordSpans(q) : C8_Has(q, sp, fragment)})

C8_IsMax(q, i) ==
    \A j \in 1..Len(text_chunks) :
        C8_Count(q, text_chunks[j]) <= C8_Count(q, text_chunks[i])

C8_FirstMax(q) ==
    CHOOSE i \in 1..Len(text_chunks) :
        /\ C8_IsMax(q, i)
        /\ \A j \in 1..(i - 1) : ~C8_IsMax(q, j)

C8_HasAll(q, i) ==
    \A sp \in C8_KeywordSpans(q) : C8_Has(q, sp, text_chunks[i])

\* C8: find_relevant_chunk returns the lowest-index fragment among those with
\* the maximum keyword count; so it returns fragment 0 when the question has
\* no keyword or no keyword matches any fragment, and it returns the one
\* fragment that contains all keywords, wherever that fragment is.
C8_Selector ==
    pc = "selected" =>
        /\ relevant_chunk = text_chunks[C8_FirstMax(question)]
        /\ (\A i \in 1..Len(text_chunks) : C8_Count(question, text_chunks[i]) = 0)
               => relevant_chunk = text_chunks[1]
        /\ \A i \in 1..Len(text_chunks) :
               (/\ C8_HasAll(question, i)
                /\ \A j \in 1..Len(text_chunks) : j # i => ~C8_HasAll(question, j))
               => relevant_chunk = text_chunks[i]

\* A call where the last of three fragments is the only one with both keywords,
\* an earlier fragment holding one of them.
C8_Witness ==
    /\ pc = "selected"
    /\ Len(text_chunks) = 3
    /\ Cardinality(C8_KeywordSpans(question)) = 2
    /\ C8_Count(question, text_chunks[1]) = 1
    /\ C8_HasAll(question, 3)
    /\ ~C8_HasAll(question, 1) /\ ~C8_HasAll(question, 2)
    /\ relevant_chunk = text_chunks[3]
    /\ relevant_chunk # text_chunks[1]

-----------------------------------------------------------------------------
(* C1 *)

\* C1: of two consecutive requests that pass through wait_for_rate_limit, the
\* second is recorded at least min_request_interval after the first, whatever
\* time (whole seconds or not) elapsed between the two calls.
C1_MinInterval ==
    [][(recorded >= 1 /\ recorded' = recorded + 1)
          => last_request_time' - last_request_time >= Secs(min_request_interval)]_vars

-----------------------------------------------------------------------------
(* C2 *)

\* C2: requests_in_last_minute is always between 0 and 15; and a call of
\* wait_for_rate_limit entered with the counter at 15 and less than 60 seconds
\* since last_minute_start blocks for the rest of the window, resets the
\* counter to 0 and the window start to the time the block ends, and only
\* then counts the new request.
C2_Window ==
    /\ [](requests_in_last_minute \in 0..rpm_limit)
    /\ [][(/\ pc = "ask"
           /\ recorded' = recorded + 1
           /\ requests_in_last_minute = rpm_limit
           /\ now - last_minute_start < Secs(window_seconds))
          => /\ last_minute_start' >= last_minute_start + Secs(window_seconds)
             /\ last_minute_start' > now
             /\ last_minute_start' <= last_request_time'
             /\ now' >= last_minute_start'
             /\ requests_in_last_minute' = 1]_vars

\* The sixteenth request was held back by the per-minute wait and is now
\* counted as the first of a new window.
C2_Witness ==
    /\ pc = "send"
    /\ window_waits = 1
    /\ recorded = rpm_limit + 1
    /\ requests_in_last_minute = 1
    /\ last_minute_start >= first_window_start + Secs(window_seconds)

-----------------------------------------------------------------------------
(* C3 *)

\* C3: the 16th request is not recorded, and so not sent, before 60 seconds
\* have passed since the window start in force for the first request.
C3_SixteenthWaits ==
    recorded >= rpm_limit + 1
        => last_request_time >= first_window_start + Secs(window_seconds)

\* Sixteen requests were made, none of them after an idle period that let the
\* window run out: the sixteenth met the cap and was blocked.
C3_Witness ==
    /\ recorded = rpm_limit + 1
    /\ window_waits = 1
    /\ pc = "send"
    /\ last_request_time >= first_window_start + Secs(window_seconds)

-----------------------------------------------------------------------------
(* C4 *)

\* Steps left in a call of ask_question: two for each attempt still allowed,
\* one more while the loop condition is yet to be tested.
C4_Measure == 2 * (max_retries - retry_count) + (IF pc = "ask" THEN 1 ELSE 0)

\* A step of a call either returns or lowers the measure.
C4_Step ==
    pc \in {"ask", "send"}
        => (\/ pc' = "print"
            \/ (pc' \in {"ask", "send"} /\ C4_Measure' < C4_Measure))

\* C4: one call of ask_question makes at most 3 send attempts and terminates
\* (every step of the call either returns or lowers a measure that is never
\* negative); when all attempts failed with a quota error carrying a delay it
\* returns the max-retries message after exactly 3 sends, and it never raises.
C4_BoundedRetries ==
    /\ [](/\ sends <= max_retries
          /\ retry_count \in 0..max_retries
          /\ pc # "crashed"
          /\ pc \in {"ask", "send"} => C4_Measure >= 0
          /\ (pc = "print" /\ retry_count = max_retries)
                => (answer = MaxRetriesMsg /\ sends = max_retries))
    /\ [][C4_Step]_vars

\* Three sends failed with a quota error that carried a delay, and the call
\* returned the max-retries message.
C4_Witness ==
    /\ pc = "print"
    /\ retry_count = max_retries
    /\ sends = max_retries
    /\ answer = MaxRetriesMsg
    /\ error_message = E_QuotaDelay

-----------------------------------------------------------------------------
(* C5 *)

\* The delay, in seconds, that each error message of the environment carries
\* for the handler: -1 when the message is not quota-flagged or holds no
\* parsable retry_delay { seconds: N }.
C5_Delay(message) ==
    IF message = E_QuotaDelay THEN 2
    ELSE IF message = E_QuotaTight THEN 1
    ELSE -1

\* A step in which a send made at pc = "send" failed.
C5_SendFailed == pc = "send" /\ sends' = sends + 1 /\ reply' = None

\* What the handler does with the error of a failed send.
C5_HandlerStep ==
    C5_SendFailed =>
        IF C5_Delay(error_message') >= 0
        THEN /\ now' >= now + Secs(C5_Delay(error_message'))
             /\ retry_count' = retry_count + 1
             /\ pc' = "ask"
             /\ question' = question
             /\ answer' = None
        ELSE /\ now' <= now + MaxSendDelay
             /\ retry_count' = retry_count
             /\ pc' = "print"
             /\ answer' # None
             /\ Contains(answer', error_message')
             /\ answer' \notin Replies

\* After a retry was signalled, the question is sent again.
C5_ResendStep ==
    (pc = "ask" /\ error_message # None)
        => (pc' = "send" /\ question' = question)

\* After a retry was signalled, the question is sent again unless the three
\* attempts are used up, and then the max-retries message is returned.
C5_ResendOrGiveUpStep ==
    (pc = "ask" /\ error_message # None)
        => IF retry_count < max_retries
           THEN pc' = "send" /\ question' = question /\ sends' = sends
           ELSE pc' = "print" /\ answer' = MaxRetriesMsg /\ sends' = sends

\* C5 as stated: after a failed send the handler waits and signals retry when
\* the message is quota-flagged with a parsable delay, and the same question
\* is then sent again; otherwise there is no wait and no retry and
\* ask_question returns an error answer.
C5_Original == [][C5_HandlerStep /\ C5_ResendStep]_vars

\* C5 as amended: the same question is sent again when fewer than 3 attempts
\* have been made for it; after the third failed attempt ask_question returns
\* the max-retries message without another send.
C5_Amended == [][C5_HandlerStep /\ C5_ResendOrGiveUpStep]_vars

\* The question is on its way to the remote API a third time, after two quota
\* errors with a delay, the last in mixed case.
C5_Witness ==
    /\ pc = "send"
    /\ retry_count = 2
    /\ sends = 2
    /\ error_message = E_QuotaDelay

-----------------------------------------------------------------------------
(* C6 *)

\* A display string: a reply, an error string, the max-retries message or the
\* not-initialised message.
C6_IsDisplayString(text) ==
    \/ text \in Replies
    \/ text = MaxRetriesMsg
    \/ text = NotInitMsg
    \/ \E e \in SendErrors \cup ReadErrors : text = ErrPrefix \o e.msg

\* A call in progress stays in ask_question until it returns to the loop.
C6_CallStep == pc \in {"ask", "send"} => pc' \in {"ask", "send", "print"}

\* The loop prints what the call returned and reads the next line.
C6_PrintStep == pc = "print" => (pc' = "input" /\ stdout' = AnswerPrefix \o answer)

\* C6: every call of ask_question returns a display string and lets no error
\* of the rate limiter, the selector, the send or the reading of the reply
\* reach the CLI loop; the loop prints an error answer like any other and
\* reads the next question.
C6_NoErrorEscapes ==
    /\ [](/\ pc # "crashed"
          /\ pc = "print" => C6_IsDisplayString(answer))
    /\ [][C6_CallStep /\ C6_PrintStep]_vars

\* The reading of the reply raised; the error string was returned and printed
\* and the loop is waiting for the next line.
C6_Witness ==
    /\ pc = "input"
    /\ error_message = E_NoText
    /\ answer = ErrPrefix \o E_NoText
    /\ stdout = AnswerPrefix \o answer

-----------------------------------------------------------------------------
(* C7 *)

\* The line is the word quit, each letter in either case.
C7_IsQuitLine(line) ==
    /\ Len(line) = 4
    /\ line[1] \in {"q", "Q"}
    /\ line[2] \in {"u", "U"}
    /\ line[3] \in {"i", "I"}
    /\ line[4] \in {"t", "T"}

\* Reading a line ends the loop exactly when the line is quit; any other line
\* starts one call of ask_question for that line.
C7_ReadStep ==
    pc = "input" =>
        /\ pc' = "exit" <=> C7_IsQuitLine(question')
        /\ pc' # "exit" =>
              (pc' = "ask" /\ retry_count' = 0 /\ sends' = 0 /\ answer' = None)

\* A call is started by reading a line, and ended by printing its answer, after
\* which the loop reads again; the line does not change in between; the loop
\* is left from no other place.
C7_LoopStep ==
    /\ (pc' = "ask" /\ pc \notin {"ask", "send"}) => pc = "input"
    /\ pc \in {"ask", "send"} => (pc' \in {"ask", "send", "print"} /\ question' = question)
    /\ pc = "print" =>
          (pc' = "input" /\ stdout' = AnswerPrefix \o answer /\ question' = question)
    /\ pc' = "exit" => pc = "input"
    /\ pc' \in {"init_failed", "stopped", "crashed"} =>
          pc \in {"load_pdf", "setup_model", "init_failed"}

\* C7: after a successful startup the process leaves the CLI loop only on a
\* line equal to quit, compared as a whole and without regard to case; every
\* other line goes to ask_question exactly once, its answer is printed and the
\* loop reads another line, whatever the inputs and the remote outcomes.
C7_OnlyQuitExits == [][C7_ReadStep /\ C7_LoopStep]_vars

\* The line " quit" was not taken for the sentinel: it was asked, three quota
\* errors used up its retries, the answer was printed and the loop reads on.
C7_Witness ==
    /\ pc = "input"
    /\ question = L_spquit
    /\ answer = MaxRetriesMsg
    /\ stdout = AnswerPrefix \o MaxRetriesMsg

-----------------------------------------------------------------------------
(* C9 *)

\* Once a send has brought a reply, the call makes no other send and keeps
\* its answer.
C9_Step == (reply # None /\ reply' # None) => (sends' = sends /\ answer' = answer)

\* C9: when the first send of a question succeeds, ask_question returns the
\* reply text unchanged after exactly one send; in general the answer is the
\* reply of the first send that succeeded, and no send follows it.
C9_ReplyVerbatim ==
    /\ [](reply # None =>
             /\ answer = reply
             /\ sends = retry_count + 1
             /\ pc \in {"print", "input", "exit"}
             /\ retry_count = 0 => sends = 1)
    /\ [][C9_Step]_vars

\* The first question of the session, answered by its first send.
C9_Witness ==
    /\ pc = "print"
    /\ recorded = 1
    /\ sends = 1
    /\ retry_count = 0
    /\ reply = ReplyA
    /\ answer = ReplyA

-----------------------------------------------------------------------------
(* C10 *)

\* C10: startup errors are fatal: when load_pdf fails setup_model is never
\* called, and when either fails initialize returns False and main stops:
\* no question is read, no request passes the rate limiter, nothing is sent.
C10_StartupFatal ==
    /\ startup_error = "load_pdf" => (~setup_called /\ model = None)
    /\ startup_error # "" =>
          /\ pc \in {"init_failed", "stopped"}
          /\ question = None
          /\ recorded = 0
          /\ sends = 0
          /\ last_request_time = 0
          /\ requests_in_last_minute = 0
    /\ pc \in {"init_failed", "stopped"} => startup_error # ""

\* load_pdf failed and main has printed its diagnostic and returned.
C10_Witness ==
    /\ pc = "stopped"
    /\ startup_error = "load_pdf"
    /\ ~setup_called
    /\ stdout = FatalMsg

-----------------------------------------------------------------------------
(* C12 *)

\* A send fails and the except clause returns instead of retrying.
C12_FailedNotRetried == pc = "send" /\ pc' = "print" /\ reply' = None

C12_OriginalStep == C12_FailedNotRetried => answer' = error_message'

\* C12 as stated: when a failed send is not retried, the string ask_question
\* returns is the error message verbatim, with nothing added or removed.
C12_Original == [][C12_OriginalStep]_vars

C12_AmendedStep ==
    C12_FailedNotRetried =>
        /\ answer' = ErrPrefix \o error_message'
        /\ ~IsQuota(error_message') \/ ~handle_quota_error(error_message').retry

\* C12 amended: when a failed send is not retried (the error is not
\* quota-related, or it is quota-related with no parsable delay), the string
\* ask_question returns is the fixed prefix "Hata olustu: " followed by the
\* error message verbatim.
C12_Prefixed == [][C12_AmendedStep]_vars

\* A quota error with no parsable delay was returned as an error answer.
C12_Witness ==
    /\ pc = "print"
    /\ sends = 1
    /\ reply = None
    /\ error_message = E_QuotaNoDelay
    /\ answer = ErrPrefix \o E_QuotaNoDelay

-----------------------------------------------------------------------------
(* C13 *)

\* A pass through wait_for_rate_limit: the inter-request check is evaluated
\* when the window wait, if there was one, has ended (the window then starts
\* anew, line 103), else on entry.  With less than min_request_interval
\* elapsed by then, the call blocks for no more than the remaining time and
\* what the sleep adds; otherwise it records the request at once.
C13_Step ==
    recorded' = recorded + 1 =>
        LET evaluated == IF window_waits' > window_waits THEN last_minute_start' ELSE now
            elapsed == evaluated - last_request_time
        IN  IF elapsed < Secs(min_request_interval)
            THEN last_request_time' - evaluated
                     <= Secs(min_request_interval) - elapsed + MaxOvershoot
            ELSE last_request_time' = evaluated

\* C13: the two guarded waits are evaluated in order; the inter-request check
\* blocks only if, at the moment it is evaluated (after any window wait of the
\* same call), less than 4 seconds have elapsed since the last request, and
\* then only for the remaining time; a call whose window wait already let 4
\* seconds pass incurs no inter-request wait.
C13_InterRequestAfterWindow == [][C13_Step]_vars

-----------------------------------------------------------------------------
(* C18 *)

\* C18: once initialize has returned True, whatever document was loaded
\* (one whose text is empty and yields no fragment included), ask_question
\* never returns the not-initialised message and find_relevant_chunk never
\* runs on an empty list: every question reaches the rate limiter and the
\* send.
C18_InitializedAnswers ==
    pc \in {"input", "ask", "send", "print", "exit"} =>
        /\ answer # NotInitMsg
        /\ pc = "print" => recorded > 0
        /\ pc = "send" => text_chunks # <<>>

-----------------------------------------------------------------------------
(* C16 *)

\* A step of ask_question entered with no fragment or no model.
C16_Step ==
    (pc = "ask" /\ (text_chunks = <<>> \/ model = None)) =>
        /\ pc' = "print"
        /\ answer' = NotInitMsg
        /\ now' = now
        /\ UNCHANGED <<last_request_time, requests_in_last_minute, last_minute_start,
                       next_available_time>>
        /\ UNCHANGED <<stop_countdown, worker>>
        /\ UNCHANGED <<recorded, sends, total_sends>>

\* C16: called with an empty fragment list or an unset model, ask_question
\* returns the not-initialised message at once and leaves the rate-limiter
\* state (last_request_time, requests_in_last_minute, last_minute_start,
\* next_available_time) unchanged, starts no countdown and makes no send.
C16_NotInitialisedFrame == [][C16_Step]_vars

\* The not-initialised message was returned for a loaded document and an
\* unset model, after the clock had moved and with the limiter untouched.
C16_Witness ==
    /\ pc = "print"
    /\ answer = NotInitMsg
    /\ text_chunks # <<>>
    /\ model = None
    /\ now > StartTime
    /\ last_request_time = 0
    /\ requests_in_last_minute = 0
    /\ last_minute_start = StartTime
    /\ next_available_time = 0

-----------------------------------------------------------------------------
(* C17 *)

\* The request recorded by wait_for_rate_limit and not sent yet.
C17_Pending == IF pc = "send" THEN 1 ELSE 0

\* A send is made from the position that follows wait_for_rate_limit, where
\* one request is recorded and not sent yet.
C17_SendStep ==
    total_sends' # total_sends =>
        /\ pc = "send"
        /\ total_sends' = total_sends + 1
        /\ recorded = total_sends + 1
        /\ recorded' = recorded

\* C17: every remote send, retries and failing sends included, is preceded
\* in the same attempt by exactly one pass through wait_for_rate_limit; the
\* window counter equals the number of send attempts since the window was
\* last reset (one more while the recorded request is being sent), and sends
\* never exceed recorded requests.
C17_SendsFollowRecords ==
    /\ [](/\ total_sends <= recorded
          /\ recorded = total_sends + C17_Pending
          /\ requests_in_last_minute = window_sends + C17_Pending)
    /\ [][C17_SendStep]_vars

\* A question was answered by its second send, the first having failed with a
\* quota error, after the window had been reset.
C17_Witness ==
    /\ pc = "print"
    /\ retry_count = 1
    /\ sends = 2
    /\ reply = ReplyA
    /\ total_sends > window_sends
    /\ window_sends = 2
    /\ requests_in_last_minute = 2

-----------------------------------------------------------------------------
(* C11 *)

\* C11: the per-minute cap holds over a rolling window: whatever the instant
\* t, at most rpm_limit requests are recorded within [t, t + 60 s).  With t
\* the time of the marked request: the request that is number rpm_limit + 1
\* from the marked one on is recorded 60 seconds after it or later.
C11_RollingCap ==
    since_mark = rpm_limit + 1 =>
        last_request_time - mark_time >= Secs(window_seconds)

-----------------------------------------------------------------------------
(* C14 *)

\* The main flow has finished its sleep and set stop_countdown.
C14_FlagSet == pc \in {"join", "returned"}

\* From then on the flag stays true, and the thread leaves the loop at its
\* next check.
C14_Step ==
    C14_FlagSet =>
        /\ stop_countdown => stop_countdown'
        /\ (worker = "check" /\ worker' # worker) => worker' = "clear"

\* C14: in every interleaving of the main flow and the countdown thread, once
\* the main flow has finished its sleep and set stop_countdown, the thread
\* sees the flag true at its next check and makes no further tick: the flag
\* set by the main flow is never put back to false by the thread.
C14_StopSeen == [][C14_Step]_vars

-----------------------------------------------------------------------------
(* C15 *)

\* C15: every call of wait_for_rate_limit and of handle_quota_error
\* eventually returns under any interleaving: the countdown thread always
\* ends (its loop is bounded by total_seconds, whether or not it sees the
\* flag) and the join does not block for ever.
C15_Returns == <>(pc = "returned" /\ worker = "done")

\* The wait has returned though the thread had put the flag back to false
\* and counted down to the end.
C15_Witness ==
    /\ pc = "returned"
    /\ worker = "done"
    /\ ~stop_countdown
    /\ total_seconds = MaxCountdown
    /\ countdown_i = 0

====
